---- MODULE Spec2Model ----
(***************************************************************************)
(* Model of the audio transcription server (src/app.py): the module-level  *)
(* Whisper model handle, the /transcribe request pipeline run by           *)
(* concurrent request workers over one shared temporary directory, and the *)
(* /health, / and unmatched-route responses.                               *)
(***************************************************************************)
EXTENDS Integers, Sequences, FiniteSets, TLC

(* ------------------------------ bounds -------------------------------- *)

\* Concurrent request workers of the server (threads serving requests).
NumWorkers == 2

\* /transcribe requests received over one run.
MaxRequests == 2

\* Candidate random names the temporary-file mechanism can draw.
NumNames == 2

\* Bytes of multipart framing around the file part of an upload.
FramingBytes == 1

Workers == 1..NumWorkers

(* --------------------------- configuration ---------------------------- *)

MAX_CONTENT_LENGTH == 25 * 1024 * 1024

\* Text is a sequence of one-character strings.
ALLOWED_EXTENSIONS ==
  { <<"w","a","v">>, <<"m","p","3">>, <<"f","l","a","c">>,
    <<"m","4","a">>, <<"o","g","g">>, <<"w","e","b","m">> }

(* ------------------------------ text ---------------------------------- *)

Upper == <<"A","B","C","D","E","F","G","H","I","J","K","L","M",
           "N","O","P","Q","R","S","T","U","V","W","X","Y","Z">>
Lower == <<"a","b","c","d","e","f","g","h","i","j","k","l","m",
           "n","o","p","q","r","s","t","u","v","w","x","y","z">>
Digits == {"0","1","2","3","4","5","6","7","8","9"}

\* str.lower() on one character.
LowerChar(c) ==
  IF \E i \in 1..26 : Upper[i] = c
    THEN Lower[CHOOSE i \in 1..26 : Upper[i] = c]
    ELSE c

\* str.lower()
lower(s) == [i \in 1..Len(s) |-> LowerChar(s[i])]

\* Index of the last '.' of s, 0 when there is none.
LastDot(s) ==
  IF \E i \in 1..Len(s) : s[i] = "."
    THEN CHOOSE i \in 1..Len(s) :
           s[i] = "." /\ \A j \in (i+1)..Len(s) : s[j] # "."
    ELSE 0

\* The extension compared as written, without lower().
allowed_file_CaseSensitive(filename) ==
  /\ \E i \in 1..Len(filename) : filename[i] = "."
  /\ \E i \in 1..Len(filename) :
       /\ filename[i] = "."
       /\ \A j \in (i+1)..Len(filename) : filename[j] # "."
       /\ SubSeq(filename, i + 1, Len(filename)) \in ALLOWED_EXTENSIONS

\* filename.rsplit('.', 1)[1]
Extension(s) == SubSeq(s, LastDot(s) + 1, Len(s))

allowed_file(filename) ==
  /\ LastDot(filename) # 0
  /\ lower(Extension(filename)) \in ALLOWED_EXTENSIONS

IsSpace(c) == c \in {" ", "\t", "\n"}

RECURSIVE LStrip(_, _)
LStrip(s, drop) ==
  IF s # <<>> /\ Head(s) \in drop THEN LStrip(Tail(s), drop) ELSE s

RECURSIVE RStrip(_, _)
RStrip(s, drop) ==
  IF s # <<>> /\ s[Len(s)] \in drop
    THEN RStrip(SubSeq(s, 1, Len(s) - 1), drop)
    ELSE s

\* str.strip(): leading and trailing whitespace removed.
strip(s) == RStrip(LStrip(s, {" ", "\t", "\n"}), {" ", "\t", "\n"})

\* "_".join(s.split()): whitespace runs become one '_', none at the ends.
RECURSIVE JoinSplit(_)
JoinSplit(s) ==
  IF s = <<>> THEN <<>>
  ELSE IF IsSpace(Head(s))
    THEN LET rest == LStrip(s, {" ", "\t", "\n"})
         IN IF rest = <<>> THEN <<>> ELSE <<"_">> \o JoinSplit(rest)
    ELSE <<Head(s)>> \o JoinSplit(Tail(s))

SafeChar(c) ==
  \/ \E i \in 1..26 : Upper[i] = c \/ Lower[i] = c
  \/ c \in Digits
  \/ c \in {"_", ".", "-"}

\* werkzeug's secure_filename: path separators become spaces, whitespace
\* runs become '_', unsafe characters are dropped, '.' and '_' are stripped
\* from both ends.
secure_filename(s) ==
  LET nosep  == [i \in 1..Len(s) |-> IF s[i] \in {"/", "\\"} THEN " " ELSE s[i]]
      joined == JoinSplit(LStrip(nosep, {" ", "\t", "\n"}))
      safe   == SelectSeq(joined, SafeChar)
  IN RStrip(LStrip(safe, {".", "_"}), {".", "_"})

\* Lines 132-134: the sanitized name, or the fallback literal.
StagingName(raw) ==
  IF secure_filename(raw) # <<>>
    THEN secure_filename(raw)
    ELSE <<"a","u","d","i","o","_","f","i","l","e">>

(* ------------------------------ inputs -------------------------------- *)

\* Multipart field names a client may use for the file part.
Fields == {"audio", "file"}

\* Sizes of the file part: the largest the ceiling admits and the smallest
\* it refuses.
FitsSize == MAX_CONTENT_LENGTH - FramingBytes
OverSize == MAX_CONTENT_LENGTH - FramingBytes + 1

Upload(field, filename, nbytes) ==
  [field |-> field, filename |-> filename, nbytes |-> nbytes]

\* The uploads clients send: one the validator accepts (its name has a path
\* separator and an upper-case extension), one failing each check of the
\* validator, ones failing several checks, and oversized ones.
Uploads ==
  { Upload("audio", <<"/","a",".","W","A","V">>, FitsSize),
    Upload("file",  <<"a",".","w","a","v">>, FitsSize),
    Upload("file",  <<"n",".","t","x","t">>, FitsSize),
    Upload("audio", <<>>, FitsSize),
    Upload("audio", <<"n",".","t","x","t">>, FitsSize),
    Upload("audio", <<"w","a","v">>, FitsSize),
    Upload("audio", <<"a",".","w","a","v">>, OverSize),
    Upload("file",  <<"n",".","t","x","t">>, OverSize) }

\* The request's Content-Length.
ContentLength(u) == u.nbytes + FramingBytes

\* What model.transcribe may return ...
EngineResults ==
  { [text |-> <<" ","h","i","\n">>, language |-> "en"],
    [text |-> <<"h","i">>] }

\* ... and the messages of the faults it may raise.
FaultTexts == {"CUDA out of memory", "ffmpeg: invalid data"}

(* ------------------------------- state -------------------------------- *)

VARIABLES
  model,           \* the module-level handle: "Unset", "None" or "Loaded"
  load_calls,      \* number of whisper.load_model calls made
  fs,              \* temporary directory: path -> bytes in the file
  pc,              \* per worker: position inside transcribe()
  request,         \* per worker: the upload being handled
  temp_file_path,  \* per worker: local of transcribe()
  file_size,       \* per worker: local of transcribe()
  resp,            \* per worker: the response computed by a return statement
  engine_calls,    \* per worker: model.transcribe calls made for the request
  engine_out,      \* per worker: << >>, or <<v>> for the value v that
                   \*   model.transcribe returned
  cleanup_calls,   \* per worker: cleanup_file calls made for the request
  staging,         \* per worker: how far staging got: "none", "created",
                   \*   "written" (file.save returned), "sized"
  unlink_failures, \* paths on which os.unlink raised inside cleanup_file
  nreq,            \* requests received so far
  health_seen      \* the responses /health has given

vars == << model, load_calls, fs, pc, request, temp_file_path, file_size, resp,
           engine_calls, engine_out, cleanup_calls, staging, unlink_failures,
           nreq, health_seen >>

reqvars == << pc, request, temp_file_path, file_size, resp, engine_calls,
              engine_out, cleanup_calls, staging >>

\* temp_file_path = None
NoPath == [rand |-> 0, suffix |-> <<>>]

NoUpload == [field |-> "", filename |-> <<>>, nbytes |-> 0]

NoResp == [status |-> 0, body |-> [success |-> FALSE, error |-> [text |-> "", detail |-> ""]]]

\* An error message: a fixed text and, where the code interpolates one, the
\* interpolated detail.
Err(text) == [text |-> text, detail |-> ""]

ErrorResponse(status, error) ==
  [status |-> status, body |-> [success |-> FALSE, error |-> error]]


(* --------------------------- pure mappings ---------------------------- *)

\* The catch-all answering with the text of the exception it caught.
UnexpectedFault_WithDetail ==
  ErrorResponse(500, [text |-> "Internal server error occurred",
                      detail |-> "[Errno 28] No space left on device"])

\* Lines 165-171: the handler's catch-all.
UnexpectedFault == ErrorResponse(500, Err("Internal server error occurred"))

\* Lines 178-184: the registered handler of HTTP error 413.
file_too_large ==
  ErrorResponse(413, Err("File too large. Maximum size allowed: 25MB"))

\* Lines 186-192: the registered handler of HTTP error 404.
not_found == ErrorResponse(404, Err("Endpoint not found"))

\* Lines 194-201: the registered handler of HTTP error 500, which answers
\* when an exception leaves a view function.
internal_error == ErrorResponse(500, Err("Internal server error"))

\* Lines 102-106.
ServiceUnavailable == ErrorResponse(503, Err("Transcription service unavailable"))

\* The validator with the extension check moved to the front.
ValidatorResult_ExtensionFirst(u) ==
  IF ~allowed_file(u.filename)
    THEN ErrorResponse(400, Err("File type not supported. Allowed formats: ..."))
  ELSE IF u.field # "audio"
    THEN ErrorResponse(400,
           Err("No audio file provided. Use 'audio' as the form field name."))
  ELSE IF u.filename = <<>>
    THEN ErrorResponse(400, Err("No file selected"))
  ELSE NoResp

\* The validator without its first check (the file field is never looked up).
ValidatorResult_NoFieldCheck(u) ==
  IF u.filename = <<>>
    THEN ErrorResponse(400, Err("No file selected"))
  ELSE IF ~allowed_file(u.filename)
    THEN ErrorResponse(400, Err("File type not supported. Allowed formats: ..."))
  ELSE NoResp

\* Lines 108-129: the response of the first failing check, NoResp when the
\* upload passes all of them.
ValidatorResult(u) ==
  IF u.field # "audio"
    THEN ErrorResponse(400,
           Err("No audio file provided. Use 'audio' as the form field name."))
  ELSE IF u.filename = <<>>
    THEN ErrorResponse(400, Err("No file selected"))
  ELSE IF ~allowed_file(u.filename)
    THEN ErrorResponse(400, Err("File type not supported. Allowed formats: ..."))
  ELSE NoResp

\* The result built from the engine's text as returned.
TranscribeOk_NoStrip(raw) ==
  [success |-> TRUE,
   transcription |-> raw.text,
   language |-> IF "language" \in DOMAIN raw THEN raw.language ELSE "unknown"]

\* Lines 58-62: transcribe_audio's result for a value the engine returned.
TranscribeOk(raw) ==
  [success |-> TRUE,
   transcription |-> strip(raw.text),
   language |-> IF "language" \in DOMAIN raw THEN raw.language ELSE "unknown"]

\* Lines 64-69: transcribe_audio's result for a fault the engine raised.
TranscribeFault(e) ==
  [success |-> FALSE, error |-> [text |-> "Transcription failed: ", detail |-> e]]

\* Lines 49-53.
TranscribeNotLoaded ==
  [success |-> FALSE, error |-> Err("Whisper model not loaded")]

\* Lines 149-163: the response for a result of transcribe_audio.
MapResult(result, filename, size) ==
  IF result.success
    THEN [status |-> 200,
          body |-> [success |-> TRUE,
                    transcription |-> result.transcription,
                    language |-> result.language,
                    filename |-> filename,
                    file_size_bytes |-> size]]
    ELSE ErrorResponse(500, result.error)

\* Lines 137-138: the path of the temporary file: a random part and the
\* suffix "_<sanitized name>".
TempPath(rand, name) == [rand |-> rand, suffix |-> <<"_">> \o name]

(* ------------------------------- Init --------------------------------- *)

Init ==
  /\ model = "Unset"
  /\ load_calls = 0
  /\ fs = << >>
  /\ pc = [w \in Workers |-> "idle"]
  /\ request = [w \in Workers |-> NoUpload]
  /\ temp_file_path = [w \in Workers |-> NoPath]
  /\ file_size = [w \in Workers |-> 0]
  /\ resp = [w \in Workers |-> NoResp]
  /\ engine_calls = [w \in Workers |-> 0]
  /\ engine_out = [w \in Workers |-> << >>]
  /\ cleanup_calls = [w \in Workers |-> 0]
  /\ staging = [w \in Workers |-> "none"]
  /\ unlink_failures = {}
  /\ nreq = 0
  /\ health_seen = {}

(* ------------------------------ startup ------------------------------- *)

\* Lines 25-30: the one load at import; a failed load leaves None.
LoadModel ==
  /\ model = "Unset"
  /\ \E outcome \in {"Loaded", "None"} : model' = outcome
  /\ load_calls' = load_calls + 1
  /\ UNCHANGED << fs, reqvars, unlink_failures, nreq, health_seen >>

(* ---------------------------- /transcribe ----------------------------- *)

\* A worker picks up a POST /transcribe; line 98.
Receive(w) ==
  /\ model # "Unset"
  /\ pc[w] \in {"idle", "done"}
  /\ nreq < MaxRequests
  /\ \E u \in Uploads : request' = [request EXCEPT ![w] = u]
  /\ pc' = [pc EXCEPT ![w] = "check_model"]
  /\ temp_file_path' = [temp_file_path EXCEPT ![w] = NoPath]
  /\ file_size' = [file_size EXCEPT ![w] = 0]
  /\ resp' = [resp EXCEPT ![w] = NoResp]
  /\ engine_calls' = [engine_calls EXCEPT ![w] = 0]
  /\ engine_out' = [engine_out EXCEPT ![w] = << >>]
  /\ cleanup_calls' = [cleanup_calls EXCEPT ![w] = 0]
  /\ staging' = [staging EXCEPT ![w] = "none"]
  /\ nreq' = nreq + 1
  /\ UNCHANGED << model, load_calls, fs, unlink_failures, health_seen >>

\* A return statement inside the try block: the response is computed and
\* control passes to the finally clause.
Return(w, r) ==
  /\ resp' = [resp EXCEPT ![w] = r]
  /\ pc' = [pc EXCEPT ![w] = "finally"]

\* The handler without its check of the handle.
CheckModel_NoGuard(w) ==
  /\ pc[w] = "check_model"
  /\ pc' = [pc EXCEPT ![w] = "validate"]
  /\ UNCHANGED << model, load_calls, fs, request, temp_file_path, file_size,
                  resp, engine_calls, engine_out, cleanup_calls, staging,
                  unlink_failures,
                  nreq, health_seen >>

\* The handler loading the model lazily when it finds the handle unset.
CheckModel_LazyLoad(w) ==
  /\ pc[w] = "check_model"
  /\ IF model = "None"
       THEN /\ \E outcome \in {"Loaded", "None"} : model' = outcome
            /\ load_calls' = load_calls + 1
            /\ IF model' = "None"
                 THEN Return(w, ServiceUnavailable)
                 ELSE /\ pc' = [pc EXCEPT ![w] = "validate"]
                      /\ UNCHANGED resp
       ELSE /\ pc' = [pc EXCEPT ![w] = "validate"]
            /\ UNCHANGED << model, load_calls, resp >>
  /\ UNCHANGED << fs, request, temp_file_path, file_size, engine_calls,
                  engine_out,
                  cleanup_calls, staging, unlink_failures, nreq, health_seen >>

\* Lines 102-106.
CheckModel(w) ==
  /\ pc[w] = "check_model"
  /\ IF model = "None"
       THEN Return(w, ServiceUnavailable)
       ELSE /\ pc' = [pc EXCEPT ![w] = "validate"]
            /\ UNCHANGED resp
  /\ UNCHANGED << model, load_calls, fs, request, temp_file_path, file_size,
                  engine_calls, engine_out, cleanup_calls, staging,
                  unlink_failures, nreq,
                  health_seen >>

\* Lines 109-134.  The first access to request.files parses the form; the
\* framework raises RequestEntityTooLarge there when the Content-Length
\* exceeds MAX_CONTENT_LENGTH, inside the try block, where the handler's
\* `except Exception` (line 165) catches it.
Validate(w) ==
  /\ pc[w] = "validate"
  /\ IF ContentLength(request[w]) > MAX_CONTENT_LENGTH
       THEN Return(w, UnexpectedFault)
     ELSE IF ValidatorResult(request[w]) # NoResp
       THEN Return(w, ValidatorResult(request[w]))
     ELSE /\ pc' = [pc EXCEPT ![w] = "create_temp"]
          /\ UNCHANGED resp
  /\ UNCHANGED << model, load_calls, fs, request, temp_file_path, file_size,
                  engine_calls, engine_out, cleanup_calls, staging,
                  unlink_failures, nreq,
                  health_seen >>

\* Staging under a path built from the upload's name alone, opened without
\* exclusive creation.
CreateTemp_NameFromUpload(w) ==
  /\ pc[w] = "create_temp"
  /\ LET p == TempPath(1, StagingName(request[w].filename))
     IN /\ fs' = [q \in DOMAIN fs \cup {p} |-> IF q = p THEN 0 ELSE fs[q]]
        /\ temp_file_path' = [temp_file_path EXCEPT ![w] = p]
        /\ staging' = [staging EXCEPT ![w] = "created"]
        /\ pc' = [pc EXCEPT ![w] = "save"]
  /\ UNCHANGED << model, load_calls, request, file_size, resp, engine_calls,
                  engine_out,
                  cleanup_calls, unlink_failures, nreq, health_seen >>

\* Lines 137-138: NamedTemporaryFile(delete=False, suffix=...) creates a file
\* that did not exist (exclusive creation under a random name) and the
\* handler records its path; or the creation raises (no free name, I/O
\* error) and the catch-all answers.
CreateTemp(w) ==
  /\ pc[w] = "create_temp"
  /\ \/ \E n \in 1..NumNames :
          LET p == TempPath(n, StagingName(request[w].filename))
          IN /\ p \notin DOMAIN fs
             /\ fs' = [q \in DOMAIN fs \cup {p} |-> IF q = p THEN 0 ELSE fs[q]]
             /\ temp_file_path' = [temp_file_path EXCEPT ![w] = p]
             /\ staging' = [staging EXCEPT ![w] = "created"]
             /\ pc' = [pc EXCEPT ![w] = "save"]
             /\ UNCHANGED resp
     \/ /\ Return(w, UnexpectedFault)
        /\ UNCHANGED << fs, temp_file_path, staging >>
  /\ UNCHANGED << model, load_calls, request, file_size, engine_calls,
                  engine_out,
                  cleanup_calls, unlink_failures, nreq, health_seen >>

\* Lines 139-140: file.save opens the path and writes the whole upload; or
\* the write raises and the catch-all answers.
SaveUpload(w) ==
  /\ pc[w] = "save"
  /\ \/ /\ fs' = [q \in DOMAIN fs \cup {temp_file_path[w]} |->
                    IF q = temp_file_path[w] THEN request[w].nbytes ELSE fs[q]]
        /\ staging' = [staging EXCEPT ![w] = "written"]
        /\ pc' = [pc EXCEPT ![w] = "getsize"]
        /\ UNCHANGED resp
     \/ /\ Return(w, UnexpectedFault)
        /\ UNCHANGED << fs, staging >>
  /\ UNCHANGED << model, load_calls, request, temp_file_path, file_size,
                  engine_calls, engine_out, cleanup_calls, unlink_failures, nreq,
                  health_seen >>

\* Line 143: os.path.getsize returns the file's size, or raises.
GetSize(w) ==
  /\ pc[w] = "getsize"
  /\ \/ /\ temp_file_path[w] \in DOMAIN fs
        /\ file_size' = [file_size EXCEPT ![w] = fs[temp_file_path[w]]]
        /\ staging' = [staging EXCEPT ![w] = "sized"]
        /\ pc' = [pc EXCEPT ![w] = "call_engine"]
        /\ UNCHANGED resp
     \/ /\ Return(w, UnexpectedFault)
        /\ UNCHANGED << file_size, staging >>
  /\ UNCHANGED << model, load_calls, fs, request, temp_file_path,
                  engine_calls, engine_out, cleanup_calls, unlink_failures, nreq,
                  health_seen >>

\* The invoker taking a lock around the engine that it never gives back:
\* a request enters the engine only if no other request of the process did.
CallEngine_HoldsLock(w) ==
  /\ pc[w] = "call_engine"
  /\ \A v \in Workers \ {w} : engine_calls[v] = 0
  /\ engine_calls' = [engine_calls EXCEPT ![w] = @ + 1]
  /\ pc' = [pc EXCEPT ![w] = "in_engine"]
  /\ UNCHANGED << model, load_calls, fs, request, temp_file_path, file_size,
                  resp, engine_out, cleanup_calls, staging, unlink_failures,
                  nreq, health_seen >>

\* Lines 147, 48-56: transcribe_audio checks the handle and enters
\* model.transcribe; no lock is taken.
CallEngine(w) ==
  /\ pc[w] = "call_engine"
  /\ IF model = "None"
       THEN /\ Return(w, MapResult(TranscribeNotLoaded,
                                   StagingName(request[w].filename), file_size[w]))
            /\ UNCHANGED engine_calls
       ELSE /\ engine_calls' = [engine_calls EXCEPT ![w] = @ + 1]
            /\ pc' = [pc EXCEPT ![w] = "in_engine"]
            /\ UNCHANGED resp
  /\ UNCHANGED << model, load_calls, fs, request, temp_file_path, file_size,
                  engine_out, cleanup_calls, staging, unlink_failures, nreq,
                  health_seen >>

\* The invoker calling the engine again after a fault.
EngineReturn_Retry(w) ==
  /\ pc[w] = "in_engine"
  /\ \/ /\ \E raw \in EngineResults :
             /\ Return(w, MapResult(TranscribeOk(raw),
                                    StagingName(request[w].filename),
                                    file_size[w]))
             /\ engine_out' = [engine_out EXCEPT ![w] = <<raw>>]
        /\ UNCHANGED engine_calls
     \/ /\ engine_calls' = [engine_calls EXCEPT ![w] = @ + 1]
        /\ UNCHANGED << pc, resp, engine_out >>
  /\ UNCHANGED << model, load_calls, fs, request, temp_file_path, file_size,
                  cleanup_calls, staging, unlink_failures, nreq, health_seen >>

\* The invoker without its except clause: an engine fault propagates to the
\* handler's catch-all.
EngineReturn_Escapes(w) ==
  /\ pc[w] = "in_engine"
  /\ \/ \E raw \in EngineResults :
          /\ Return(w, MapResult(TranscribeOk(raw),
                                 StagingName(request[w].filename), file_size[w]))
          /\ engine_out' = [engine_out EXCEPT ![w] = <<raw>>]
     \/ /\ Return(w, UnexpectedFault)
        /\ UNCHANGED engine_out
  /\ UNCHANGED << model, load_calls, fs, request, temp_file_path, file_size,
                  engine_calls, cleanup_calls, staging, unlink_failures, nreq,
                  health_seen >>

\* Lines 56-69, 149-163: model.transcribe returns a value or raises; the
\* result of transcribe_audio is mapped to the response.
EngineReturn(w) ==
  /\ pc[w] = "in_engine"
  /\ \/ \E raw \in EngineResults :
          /\ Return(w, MapResult(TranscribeOk(raw),
                                 StagingName(request[w].filename), file_size[w]))
          /\ engine_out' = [engine_out EXCEPT ![w] = <<raw>>]
     \/ /\ \E e \in FaultTexts :
             Return(w, MapResult(TranscribeFault(e),
                                 StagingName(request[w].filename), file_size[w]))
        /\ UNCHANGED engine_out
  /\ UNCHANGED << model, load_calls, fs, request, temp_file_path, file_size,
                  engine_calls, cleanup_calls, staging, unlink_failures, nreq,
                  health_seen >>

\* Lines 37-44: cleanup_file(file_path): the directory afterwards, and the
\* paths on which os.unlink has raised.  The file is unlinked if it exists;
\* a failure of os.unlink is logged and swallowed and the file stays.
cleanup_file(file_path, unlink_raises) ==
  IF file_path \in DOMAIN fs /\ ~unlink_raises
    THEN /\ fs' = [q \in DOMAIN fs \ {file_path} |-> fs[q]]
         /\ UNCHANGED unlink_failures
    ELSE /\ UNCHANGED fs
         /\ unlink_failures' =
              IF file_path \in DOMAIN fs
                THEN unlink_failures \cup {file_path}
                ELSE unlink_failures

\* cleanup_file without its exists() test and its except clause: a failure
\* of os.unlink, also on a file already gone, leaves the finally clause as an
\* exception and the application's 500 handler answers.
Finally_CleanupRaises(w) ==
  /\ pc[w] = "finally"
  /\ IF temp_file_path[w] # NoPath
       THEN /\ cleanup_calls' = [cleanup_calls EXCEPT ![w] = @ + 1]
            /\ \E unlink_raises \in BOOLEAN :
                 /\ cleanup_file(temp_file_path[w], unlink_raises)
                 /\ resp' = IF unlink_raises \/ temp_file_path[w] \notin DOMAIN fs
                             THEN [resp EXCEPT ![w] = internal_error]
                             ELSE resp
       ELSE UNCHANGED << fs, cleanup_calls, unlink_failures, resp >>
  /\ pc' = [pc EXCEPT ![w] = "done"]
  /\ UNCHANGED << model, load_calls, request, temp_file_path, file_size,
                  engine_calls, engine_out, staging, nreq, health_seen >>

\* The release placed at the end of the success path instead of in a finally
\* clause.
Finally_SuccessOnly(w) ==
  /\ pc[w] = "finally"
  /\ IF temp_file_path[w] # NoPath /\ resp[w].body.success
       THEN /\ cleanup_calls' = [cleanup_calls EXCEPT ![w] = @ + 1]
            /\ \E unlink_raises \in BOOLEAN :
                 cleanup_file(temp_file_path[w], unlink_raises)
       ELSE UNCHANGED << fs, cleanup_calls, unlink_failures >>
  /\ pc' = [pc EXCEPT ![w] = "done"]
  /\ UNCHANGED << model, load_calls, request, temp_file_path, file_size, resp,
                  engine_calls, engine_out, staging, nreq, health_seen >>

\* The release emptying the staging directory instead of removing the
\* request's own file.
Finally_SweepsTempDir(w) ==
  /\ pc[w] = "finally"
  /\ IF temp_file_path[w] # NoPath
       THEN /\ cleanup_calls' = [cleanup_calls EXCEPT ![w] = @ + 1]
            /\ fs' = << >>
            /\ UNCHANGED unlink_failures
       ELSE UNCHANGED << fs, cleanup_calls, unlink_failures >>
  /\ pc' = [pc EXCEPT ![w] = "done"]
  /\ UNCHANGED << model, load_calls, request, temp_file_path, file_size, resp,
                  engine_calls, engine_out, staging, nreq, health_seen >>

\* Lines 173-176: the finally clause releases the staged file if one was
\* recorded; the response computed by the return statement is handed back
\* afterwards.
Finally(w) ==
  /\ pc[w] = "finally"
  /\ IF temp_file_path[w] # NoPath
       THEN /\ cleanup_calls' = [cleanup_calls EXCEPT ![w] = @ + 1]
            /\ \E unlink_raises \in BOOLEAN :
                 cleanup_file(temp_file_path[w], unlink_raises)
       ELSE UNCHANGED << fs, cleanup_calls, unlink_failures >>
  /\ pc' = [pc EXCEPT ![w] = "done"]
  /\ UNCHANGED << model, load_calls, request, temp_file_path, file_size, resp,
                  engine_calls, engine_out, staging, nreq, health_seen >>

(* --------------------------- other routes ----------------------------- *)

\* Lines 71-78: the body reports whether the handle is set; jsonify answers
\* with status 200.
HealthResponse == [status |-> 200, model_loaded |-> model # "None"]

health_check ==
  /\ model # "Unset"
  /\ health_seen' = health_seen \cup {HealthResponse}
  /\ UNCHANGED << model, load_calls, fs, reqvars, unlink_failures, nreq >>

\* Lines 80-93: a document built from the configuration constants; no state
\* is read or written.
index ==
  /\ model # "Unset"
  /\ UNCHANGED vars

\* Lines 186-192: a request to a route the application does not define is
\* answered by not_found; no state is read or written.
UnmatchedRoute ==
  /\ model # "Unset"
  /\ not_found.status = 404
  /\ UNCHANGED vars

Next ==
  \/ LoadModel
  \/ \E w \in Workers :
       \/ Receive(w)
       \/ CheckModel(w)
       \/ Validate(w)
       \/ CreateTemp(w)
       \/ SaveUpload(w)
       \/ GetSize(w)
       \/ CallEngine(w)
       \/ EngineReturn(w)
       \/ Finally(w)
  \/ health_check
  \/ index
  \/ UnmatchedRoute

Spec == Init /\ [][Next]_vars

\* Lines 95-176 and 212: one step of the handler running in worker w.  The
\* development server runs every request in a thread of its own, and the
\* handler has no loop, lock or wait: a thread that can take its next step
\* is eventually scheduled, and the calls it makes return.
HandlerStep(w) ==
  \/ CheckModel(w)
  \/ Validate(w)
  \/ CreateTemp(w)
  \/ SaveUpload(w)
  \/ GetSize(w)
  \/ CallEngine(w)
  \/ EngineReturn(w)
  \/ Finally(w)

TypeOK ==
  /\ model \in {"Unset", "None", "Loaded"}
  /\ \A w \in Workers :
       pc[w] \in {"idle", "check_model", "validate", "create_temp", "save",
                  "getsize", "call_engine", "in_engine", "finally", "done"}


(* ------------------- the validator on generated names ---------------- *)

\* Longest generated filename.
MaxNameLen == 5

\* Characters of the generated filenames: the letters of "wav" in both
\* cases where it matters, and the '.'.
NameChars == {"a", "w", "v", "W", "."}

\* Names with the other allowed extensions and with extensions not allowed.
OtherNames ==
  { <<"a",".","m","p","3">>, <<"a",".","F","L","A","C">>,
    <<"a",".","m","4","a">>, <<"a",".","O","g","g">>,
    <<"a",".","w","e","b","m">>, <<"a",".","m","p","4">>,
    <<"a",".","t","x","t">>, <<"a",".","w","a","v",".","e","x","e">>,
    <<"m","p","3">> }

GenFilenames ==
  UNION { [1..n -> NameChars] : n \in 0..MaxNameLen } \cup OtherNames

\* The service after a successful load, its first worker entering
\* transcribe() (line 98) for a POST /transcribe with field 'audio', a
\* payload within the ceiling and a generated filename.
InitFiles ==
  /\ model = "Loaded"
  /\ load_calls = 1
  /\ fs = << >>
  /\ pc = [w \in Workers |-> IF w = 1 THEN "check_model" ELSE "idle"]
  /\ \E f \in GenFilenames :
       request = [w \in Workers |->
                    IF w = 1 THEN Upload("audio", f, FitsSize) ELSE NoUpload]
  /\ temp_file_path = [w \in Workers |-> NoPath]
  /\ file_size = [w \in Workers |-> 0]
  /\ resp = [w \in Workers |-> NoResp]
  /\ engine_calls = [w \in Workers |-> 0]
  /\ engine_out = [w \in Workers |-> << >>]
  /\ cleanup_calls = [w \in Workers |-> 0]
  /\ staging = [w \in Workers |-> "none"]
  /\ unlink_failures = {}
  /\ nreq = 1
  /\ health_seen = {}

\* The request goes through the handler up to the validator's verdict: a
\* rejection is answered, an accepted upload is left at staging.
NextFiles ==
  \/ CheckModel(1)
  \/ Validate(1)
  \/ Finally(1)

SpecFiles == InitFiles /\ [][NextFiles]_vars

(* ----------------- the finally clause on any staged request ----------- *)

\* The upload the validator accepts.
AcceptedUpload == Upload("audio", <<"/","a",".","W","A","V">>, FitsSize)

\* How a request that created its staged file can reach the finally clause:
\* the write or the size lookup raised, or the engine returned or raised.
CleanupCases ==
  { [resp |-> UnexpectedFault, staging |-> "created", size |-> 0,
     calls |-> 0, out |-> << >>],
    [resp |-> UnexpectedFault, staging |-> "written", size |-> 0,
     calls |-> 0, out |-> << >>] }
  \cup
  { [resp |-> MapResult(TranscribeOk(raw),
                        StagingName(AcceptedUpload.filename),
                        AcceptedUpload.nbytes),
     staging |-> "sized", size |-> AcceptedUpload.nbytes,
     calls |-> 1, out |-> <<raw>>] : raw \in EngineResults }
  \cup
  { [resp |-> MapResult(TranscribeFault(e),
                        StagingName(AcceptedUpload.filename),
                        AcceptedUpload.nbytes),
     staging |-> "sized", size |-> AcceptedUpload.nbytes,
     calls |-> 1, out |-> << >>] : e \in FaultTexts }

\* Every worker stands at the finally clause (line 173) of a request that
\* created its staged file; each staged file is still there, or is already
\* gone (removed from outside the service).
InitCleanup ==
  /\ model = "Loaded"
  /\ load_calls = 1
  /\ pc = [w \in Workers |-> "finally"]
  /\ request = [w \in Workers |-> AcceptedUpload]
  /\ temp_file_path =
       [w \in Workers |-> TempPath(w, StagingName(AcceptedUpload.filename))]
  /\ \E case \in [Workers -> CleanupCases] :
       /\ resp = [w \in Workers |-> case[w].resp]
       /\ staging = [w \in Workers |-> case[w].staging]
       /\ file_size = [w \in Workers |-> case[w].size]
       /\ engine_calls = [w \in Workers |-> case[w].calls]
       /\ engine_out = [w \in Workers |-> case[w].out]
       /\ \E present \in SUBSET Workers :
            fs = [p \in {temp_file_path[w] : w \in present} |->
                    IF \E w \in present :
                         temp_file_path[w] = p /\ case[w].staging = "created"
                      THEN 0
                      ELSE AcceptedUpload.nbytes]
  /\ cleanup_calls = [w \in Workers |-> 0]
  /\ unlink_failures = {}
  /\ nreq = NumWorkers
  /\ health_seen = {}

NextCleanup == \E w \in Workers : Finally(w)

SpecCleanup == InitCleanup /\ [][NextCleanup]_vars

(* ------------------- accepted requests running together -------------- *)

\* The service after a successful load, every worker entering transcribe()
\* (line 98) at once for an upload the validator accepts.
InitRun ==
  /\ model = "Loaded"
  /\ load_calls = 1
  /\ fs = << >>
  /\ pc = [w \in Workers |-> "check_model"]
  /\ request = [w \in Workers |-> AcceptedUpload]
  /\ temp_file_path = [w \in Workers |-> NoPath]
  /\ file_size = [w \in Workers |-> 0]
  /\ resp = [w \in Workers |-> NoResp]
  /\ engine_calls = [w \in Workers |-> 0]
  /\ engine_out = [w \in Workers |-> << >>]
  /\ cleanup_calls = [w \in Workers |-> 0]
  /\ staging = [w \in Workers |-> "none"]
  /\ unlink_failures = {}
  /\ nreq = NumWorkers
  /\ health_seen = {}

NextRun == \E w \in Workers : HandlerStep(w)

\* The handler threads are scheduled fairly and the calls they make return.
FairRun ==
  InitRun /\ [][NextRun]_vars /\ \A w \in Workers : WF_vars(HandlerStep(w))

(* ------------------------------ claims -------------------------------- *)

\* The response of worker w's request has been computed.
Answered(w) == pc[w] \in {"finally", "done"}

\* Worker w's finally clause runs in this step: the response is handed back.
HandsBack(w) == pc[w] = "finally" /\ pc'[w] = "done"

\* Worker w holds a staged file it has not released yet.
InFlight(w) ==
  /\ temp_file_path[w] # NoPath
  /\ pc[w] \in {"save", "getsize", "call_engine", "in_engine", "finally"}

\* No request is being handled.
Quiet == \A w \in Workers : pc[w] \in {"idle", "done"}

Oversized(w) == ContentLength(request[w]) > MAX_CONTENT_LENGTH

\* The engine raised during worker w's request: it was invoked and the
\* response is not a success.
EngineFaulted(w) == engine_calls[w] >= 1 /\ ~resp[w].body.success

\* C1: with the model loaded, a request whose Content-Length exceeds
\* MAX_CONTENT_LENGTH is answered success=false with status 413 and never
\* reaches the engine.
C1_OversizedAnswered413 ==
  \A w \in Workers :
    (model = "Loaded" /\ pc[w] = "done" /\ Oversized(w)) =>
      /\ resp[w].status = 413
      /\ ~resp[w].body.success
      /\ engine_calls[w] = 0

\* C2 as stated: when a request that created a staged file hands back its
\* response, release was attempted exactly once and the file is gone; when no
\* request is being handled, no staged file remains.
C2_StagedFileAlwaysGone ==
  [][ /\ \A w \in Workers :
           (HandsBack(w) /\ temp_file_path[w] # NoPath) =>
             /\ cleanup_calls'[w] = 1
             /\ temp_file_path[w] \notin DOMAIN fs'
      /\ Quiet' => DOMAIN fs' = {}
    ]_vars

\* C2 as amended: release is attempted exactly once on every exit path after
\* staging, and the file is gone when the response is handed back unless
\* os.unlink itself raised; when no request is being handled, the only
\* staged files that remain are those whose deletion failed.
C2_ReleasedOnEveryExit ==
  [][ /\ \A w \in Workers :
           (HandsBack(w) /\ temp_file_path[w] # NoPath) =>
             /\ cleanup_calls'[w] = 1
             /\ \/ temp_file_path[w] \notin DOMAIN fs'
                \/ temp_file_path[w] \in unlink_failures'
      /\ Quiet' => DOMAIN fs' \subseteq unlink_failures'
    ]_vars

\* A request whose upload could not be written has handed back the generic
\* failure, after one release that removed its staged file.
C2_Witness ==
  \E w \in Workers :
    /\ pc[w] = "done"
    /\ staging[w] = "created"
    /\ resp[w] = UnexpectedFault
    /\ cleanup_calls[w] = 1
    /\ temp_file_path[w] \notin DOMAIN fs

\* C3: while the handle is None, no request creates a staged file or invokes
\* the engine, and every response computed is success=false with status 503.
C3_UnloadedAnswers503 ==
  model = "None" =>
    /\ DOMAIN fs = {}
    /\ \A w \in Workers :
         /\ temp_file_path[w] = NoPath
         /\ staging[w] = "none"
         /\ engine_calls[w] = 0
         /\ Answered(w) => /\ resp[w].status = 503
                           /\ ~resp[w].body.success

\* With the handle None, an upload the validator would accept and one it
\* would reject have both been answered 503.
C3_Witness ==
  /\ model = "None"
  /\ \E w1, w2 \in Workers :
       /\ pc[w1] = "done" /\ pc[w2] = "done"
       /\ ValidatorResult(request[w1]) = NoResp /\ ~Oversized(w1)
       /\ ValidatorResult(request[w2]) # NoResp
       /\ resp[w1].status = 503 /\ resp[w2].status = 503

\* C4 as stated: an upload without the 'audio' field is answered
\* success=false with status 400 in every state of the service.
C4_MissingFieldAlways400 ==
  \A w \in Workers :
    (Answered(w) /\ request[w].field # "audio") =>
      /\ ~resp[w].body.success
      /\ resp[w].status = 400

\* C4 as amended: an upload without the 'audio' field is answered
\* success=false; the status is 400 when the handle is loaded and the payload
\* is within the size ceiling, and 503 when the handle is None.
C4_MissingFieldRejected ==
  \A w \in Workers :
    (Answered(w) /\ request[w].field # "audio") =>
      /\ ~resp[w].body.success
      /\ (model = "Loaded" /\ ~Oversized(w)) => resp[w].status = 400
      /\ model = "None" => resp[w].status = 503

\* With the handle loaded, an upload under another field name has been
\* answered 400.
C4_Witness ==
  \E w \in Workers :
    /\ model = "Loaded"
    /\ pc[w] = "done"
    /\ request[w].field = "file"
    /\ ~Oversized(w)
    /\ resp[w].status = 400

\* C5: two requests with the same upload whose engine calls both raised get
\* the same status and body, whatever the texts of the two faults.
C5_FaultTextNotReturned ==
  \A w1, w2 \in Workers :
    ( /\ pc[w1] = "done" /\ pc[w2] = "done"
      /\ request[w1] = request[w2]
      /\ EngineFaulted(w1) /\ EngineFaulted(w2) ) =>
      resp[w1] = resp[w2]

\* C6 as stated: the engine is invoked at most once per request, only once
\* the upload is fully written to the staged file, and exactly once for
\* every request whose staging completed.
C6_OncePerStagedRequest ==
  \A w \in Workers :
    /\ engine_calls[w] <= 1
    /\ engine_calls[w] >= 1 => staging[w] \in {"written", "sized"}
    /\ pc[w] = "in_engine" =>
         /\ temp_file_path[w] \in DOMAIN fs
         /\ fs[temp_file_path[w]] = request[w].nbytes
    /\ pc[w] = "done" =>
         (staging[w] \in {"written", "sized"} <=> engine_calls[w] = 1)

\* C6 as amended: the engine is invoked at most once per request (no retry),
\* only once the upload is fully written to the staged file, and exactly once
\* for every request whose staging completed and whose size lookup succeeded;
\* never for a request rejected or failed before that.
C6_OncePerSizedRequest ==
  \A w \in Workers :
    /\ engine_calls[w] <= 1
    /\ engine_calls[w] >= 1 => staging[w] = "sized"
    /\ pc[w] = "in_engine" =>
         /\ temp_file_path[w] \in DOMAIN fs
         /\ fs[temp_file_path[w]] = request[w].nbytes
    /\ pc[w] = "done" => (staging[w] = "sized" <=> engine_calls[w] = 1)

\* A request whose engine call raised has finished with one invocation.
C6_Witness ==
  \E w \in Workers :
    /\ pc[w] = "done"
    /\ staging[w] = "sized"
    /\ engine_calls[w] = 1
    /\ resp[w].status = 500

\* C7 as stated: a request whose engine call raised hands back success=false
\* with status 500 and an error 'Transcription failed: <fault>', and its
\* staged file is gone.
C7_FaultAnsweredFileGone ==
  [][ \A w \in Workers :
        (HandsBack(w) /\ EngineFaulted(w)) =>
          /\ resp'[w].status = 500
          /\ resp'[w].body.error.text = "Transcription failed: "
          /\ resp'[w].body.error.detail \in FaultTexts
          /\ temp_file_path[w] \notin DOMAIN fs'
    ]_vars

\* C7 as amended: a request whose engine call raised hands back success=false
\* with status 500 and an error 'Transcription failed: <fault>', and its
\* staged file has been released: it is gone unless os.unlink itself raised.
C7_FaultAnsweredFileReleased ==
  [][ \A w \in Workers :
        (HandsBack(w) /\ EngineFaulted(w)) =>
          /\ resp'[w].status = 500
          /\ resp'[w].body.error.text = "Transcription failed: "
          /\ resp'[w].body.error.detail \in FaultTexts
          /\ cleanup_calls'[w] = 1
          /\ \/ temp_file_path[w] \notin DOMAIN fs'
             \/ temp_file_path[w] \in unlink_failures'
    ]_vars

\* A request whose engine call raised has handed back the 500 and its staged
\* file is gone.
C7_Witness ==
  \E w \in Workers :
    /\ pc[w] = "done"
    /\ EngineFaulted(w)
    /\ resp[w].body.error.text = "Transcription failed: "
    /\ cleanup_calls[w] = 1
    /\ temp_file_path[w] \notin DOMAIN fs

\* C8: the staged paths of two requests in flight differ, and the staged
\* file of every request in flight exists (no other request's release has
\* removed it).
C8_StagedPathsDistinct ==
  \A w1 \in Workers :
    InFlight(w1) =>
      /\ temp_file_path[w1] \in DOMAIN fs
      /\ \A w2 \in Workers \ {w1} :
           InFlight(w2) => temp_file_path[w1] # temp_file_path[w2]

\* Two requests uploading under the same filename are inside the engine at
\* once, each with its staged file.
C8_Witness ==
  \E w1, w2 \in Workers :
    /\ w1 # w2
    /\ pc[w1] = "in_engine" /\ pc[w2] = "in_engine"
    /\ request[w1].filename = request[w2].filename

\* C9: at most one request at a time is inside the engine's transcribe call.
C9_EngineCallsSerialized ==
  Cardinality({w \in Workers : pc[w] = "in_engine"}) <= 1

\* C10: once set at startup the handle never changes and no further load is
\* attempted, whatever requests are served; every /health response has
\* status 200 and reports the same model_loaded value, that of the handle.
C10_HandleReadOnly ==
  [][ /\ model # "Unset" => (model' = model /\ load_calls' = load_calls)
      /\ load_calls' <= 1
      /\ Cardinality(health_seen') <= 1
      /\ \A h \in health_seen' :
           h.status = 200 /\ h.model_loaded = (model' = "Loaded")
    ]_vars

\* /health has answered, one /transcribe request has been rejected and
\* another has failed in the engine.
C10_Witness ==
  /\ health_seen # {}
  /\ \E w1, w2 \in Workers :
       /\ pc[w1] = "done" /\ resp[w1].status = 400
       /\ pc[w2] = "done" /\ resp[w2].status = 500 /\ engine_calls[w2] = 1

\* t is s without its leading and trailing blanks (space, tab, newline).
IsTrimOf(t, s) ==
  \E i \in 0..Len(s) : \E j \in i..Len(s) :
    /\ t = SubSeq(s, i + 1, j)
    /\ \A k \in 1..i : s[k] \in {" ", "\t", "\n"}
    /\ \A k \in (j + 1)..Len(s) : s[k] \in {" ", "\t", "\n"}
    /\ t # << >> => /\ t[1] \notin {" ", "\t", "\n"}
                    /\ t[Len(t)] \notin {" ", "\t", "\n"}

\* C11: every response computed follows the mapping table: success is true
\* exactly when the status is 200, exactly when the engine call returned a
\* value; that response carries the engine's text without surrounding
\* blanks, the engine's language or "unknown" when it reported none, the
\* sanitized filename and the staged file's size; every other response is
\* success=false with an error text and a status among 400, 413, 500, 503.
C11_MappingTable ==
  \A w \in Workers :
    Answered(w) =>
      /\ resp[w].body.success <=> resp[w].status = 200
      /\ resp[w].status = 200 <=> engine_out[w] # << >>
      /\ IF resp[w].body.success
           THEN /\ engine_out[w] # << >>
                /\ IsTrimOf(resp[w].body.transcription, engine_out[w][1].text)
                /\ resp[w].body.language =
                     IF "language" \in DOMAIN engine_out[w][1]
                       THEN engine_out[w][1].language
                       ELSE "unknown"
                /\ request[w].filename = <<"/","a",".","W","A","V">> =>
                     resp[w].body.filename = <<"a",".","W","A","V">>
                /\ resp[w].body.filename # << >>
                /\ \A k \in 1..Len(resp[w].body.filename) :
                     resp[w].body.filename[k] \notin {"/", "\\"}
                /\ resp[w].body.file_size_bytes = request[w].nbytes
           ELSE /\ resp[w].status \in {400, 413, 500, 503}
                /\ resp[w].body.error.text # ""

\* One request got 200 for an engine text with surrounding blanks, and one
\* got 200 with the language defaulted.
C11_Witness ==
  \E w1, w2 \in Workers :
    /\ pc[w1] = "done" /\ resp[w1].status = 200
    /\ engine_out[w1] = << [text |-> <<" ","h","i","\n">>, language |-> "en"] >>
    /\ resp[w1].body.transcription = <<"h","i">>
    /\ pc[w2] = "done" /\ resp[w2].status = 200
    /\ engine_out[w2] # << >>
    /\ "language" \notin DOMAIN engine_out[w2][1]
    /\ resp[w2].body.language = "unknown"

\* Characters c and d are the same letter up to case, or the same character.
SameIgnoringCase(c, d) ==
  \/ c = d
  \/ \E i \in 1..26 : {c, d} \subseteq {Upper[i], Lower[i]}

\* f ends with a '.' followed by one of the allowed extensions in any case.
\* (No allowed extension contains a '.', so that '.' is the final one.)
HasAllowedExtension(f) ==
  \E ext \in ALLOWED_EXTENSIONS :
    /\ Len(f) >= Len(ext) + 1
    /\ f[Len(f) - Len(ext)] = "."
    /\ \A k \in 1..Len(ext) :
         SameIgnoringCase(f[Len(f) - Len(ext) + k], ext[k])

\* Worker w's request was rejected with status 400 and the given error, with
\* no staged file and no engine call.
RejectedWith(w, text) ==
  /\ resp[w].status = 400
  /\ ~resp[w].body.success
  /\ resp[w].body.error.text = text
  /\ temp_file_path[w] = NoPath
  /\ staging[w] = "none"
  /\ engine_calls[w] = 0
  /\ cleanup_calls[w] = 0

\* C12: with the model loaded (and the payload within the ceiling), the
\* error reported is that of the first failing check in the order file field
\* present, filename non-empty, extension allowed; a rejected request has
\* status 400, no staged file and no engine call.
C12_FirstFailingCheck ==
  \A w \in Workers :
    (model = "Loaded" /\ Answered(w) /\ ~Oversized(w)) =>
      IF request[w].field # "audio"
        THEN RejectedWith(w,
               "No audio file provided. Use 'audio' as the form field name.")
      ELSE IF request[w].filename = << >>
        THEN RejectedWith(w, "No file selected")
      ELSE IF ~HasAllowedExtension(request[w].filename)
        THEN RejectedWith(w, "File type not supported. Allowed formats: ...")
      ELSE resp[w].status # 400

\* An upload failing the first and the third check got the first check's
\* error, and one failing the second and the third got the second's.
C12_Witness ==
  \E w1, w2 \in Workers :
    /\ model = "Loaded"
    /\ pc[w1] = "done"
    /\ request[w1] = Upload("file", <<"n",".","t","x","t">>, FitsSize)
    /\ resp[w1].body.error.text =
         "No audio file provided. Use 'audio' as the form field name."
    /\ pc[w2] = "done"
    /\ request[w2] = Upload("audio", << >>, FitsSize)
    /\ resp[w2].body.error.text = "No file selected"

\* C13: allowed_file accepts a filename exactly when it has a '.' and what
\* follows the final '.' is, ignoring case, one of the allowed extensions;
\* an upload whose filename it refuses (no '.', or another extension) is
\* answered success=false with status 400 and is not staged, and only
\* filenames it accepts go on to staging.
C13_ExtensionDecides ==
  \A w \in Workers :
    pc[w] # "idle" =>
      /\ allowed_file(request[w].filename)
           <=> HasAllowedExtension(request[w].filename)
      /\ pc[w] = "create_temp" => HasAllowedExtension(request[w].filename)
      /\ (Answered(w) /\ ~HasAllowedExtension(request[w].filename)) =>
           /\ resp[w].status = 400
           /\ ~resp[w].body.success
           /\ temp_file_path[w] = NoPath

\* A name with an allowed extension before its final '.' has been rejected
\* with 400.
C13_Witness ==
  /\ pc[1] = "done"
  /\ request[1].filename = <<"w","a","v",".","a">>
  /\ resp[1].status = 400

\* C14: the finally clause never changes the response computed before it and
\* always completes, also when os.unlink raises and when the staged file is
\* already gone; a file whose unlink raised stays, any other is absent
\* afterwards.
C14_CleanupFailureSwallowed ==
  [][ \A w \in Workers :
        HandsBack(w) =>
          /\ resp'[w] = resp[w]
          /\ cleanup_calls'[w] = 1
          /\ temp_file_path[w] \in unlink_failures' =>
               temp_file_path[w] \in DOMAIN fs'
          /\ temp_file_path[w] \notin unlink_failures' =>
               temp_file_path[w] \notin DOMAIN fs'
          /\ temp_file_path[w] \notin DOMAIN fs => fs' = fs
    ]_vars

\* One request handed back its 200 although os.unlink raised on its staged
\* file, and another handed back its response with its file absent.
C14_Witness ==
  \E w1, w2 \in Workers :
    /\ pc[w1] = "done" /\ cleanup_calls[w1] = 1
    /\ temp_file_path[w1] \in unlink_failures
    /\ temp_file_path[w1] \in DOMAIN fs
    /\ resp[w1].status = 200
    /\ pc[w2] = "done" /\ cleanup_calls[w2] = 1
    /\ temp_file_path[w2] \notin unlink_failures
    /\ temp_file_path[w2] \notin DOMAIN fs
    /\ resp[w2] # NoResp

\* Creating the staged file, writing the upload or the size lookup raises in
\* this step of worker w.
StagingFault(w) ==
  pc[w] \in {"create_temp", "save", "getsize"} /\ pc'[w] = "finally"

\* C15: a fault while creating the staged file, writing the upload or
\* reading its size is answered success=false with status 500 and the fixed
\* text 'Internal server error occurred' and nothing else; the engine is not
\* invoked for that request, and when the response is handed back the staged
\* file, if one was created, has been released once (it is gone unless
\* os.unlink raised).
C15_UnexpectedFaultGeneric ==
  [][ \A w \in Workers :
        /\ StagingFault(w) =>
             /\ resp'[w].status = 500
             /\ ~resp'[w].body.success
             /\ resp'[w].body.error.text = "Internal server error occurred"
             /\ resp'[w].body.error.detail = ""
             /\ engine_calls'[w] = 0
        /\ (HandsBack(w) /\ staging[w] # "sized" /\ ~Oversized(w)
              /\ resp[w].status = 500) =>
             /\ resp'[w] = resp[w]
             /\ resp[w].body.error.text = "Internal server error occurred"
             /\ engine_calls'[w] = 0
             /\ IF temp_file_path[w] # NoPath
                  THEN /\ cleanup_calls'[w] = 1
                       /\ \/ temp_file_path[w] \notin DOMAIN fs'
                          \/ temp_file_path[w] \in unlink_failures'
                  ELSE cleanup_calls'[w] = 0
    ]_vars

\* A request whose size lookup raised has handed back the generic 500 with
\* no engine call, its staged file released and gone; another failed before
\* any file was created.
C15_Witness ==
  \E w1, w2 \in Workers :
    /\ pc[w1] = "done"
    /\ staging[w1] = "written"
    /\ resp[w1].status = 500
    /\ resp[w1].body.error.text = "Internal server error occurred"
    /\ engine_calls[w1] = 0
    /\ cleanup_calls[w1] = 1
    /\ temp_file_path[w1] \notin DOMAIN fs
    /\ pc[w2] = "done"
    /\ ValidatorResult(request[w2]) = NoResp /\ ~Oversized(w2)
    /\ temp_file_path[w2] = NoPath
    /\ resp[w2].status = 500

\* C16: under fair scheduling of the handler threads, every request the
\* handler has started on is eventually handed back, through its finally
\* clause, with a response; the response is computed once and never changed
\* afterwards; and a request in the handler can always take its next step,
\* whatever the other requests are doing.
C16_RunsToCompletion ==
  /\ \A w \in Workers :
       (pc[w] = "check_model") ~> (pc[w] = "done" /\ resp[w] # NoResp)
  /\ [][ \A w \in Workers :
           /\ (resp[w] # NoResp /\ resp'[w] # resp[w]) =>
                 (pc[w] = "done" /\ pc'[w] = "check_model")
           /\ (pc[w] # "done" /\ pc'[w] = "done") => pc[w] = "finally"
           /\ (pc[w] # "finally" /\ pc'[w] = "finally") =>
                 (resp[w] = NoResp /\ resp'[w] # NoResp) ]_vars
  /\ [](\A w \in Workers :
          pc[w] \notin {"idle", "done"} => ENABLED HandlerStep(w))

\* One request sits in the engine while another, received with it, has
\* already been answered from the engine and handed back.
C16_Witness ==
  \E w1, w2 \in Workers :
    /\ w1 # w2
    /\ pc[w1] = "in_engine"
    /\ pc[w2] = "done"
    /\ engine_calls[w2] = 1
    /\ resp[w2].status = 200

\* Worker w enters the engine in this step.
Invokes(w) == pc[w] = "call_engine" /\ pc'[w] = "in_engine"

\* C17: a request enters the engine only after its upload is staged and
\* sized, with no response and no release yet; while it is in the engine no
\* step of any request removes or changes its staged file; the step that
\* leaves the engine computes the response and releases nothing; and the
\* release happens only in the finally clause, after the response, which it
\* leaves as it is.
C17_StageInvokeRespondRelease ==
  [][ \A w \in Workers :
        /\ Invokes(w) =>
             /\ staging[w] = "sized"
             /\ temp_file_path[w] \in DOMAIN fs'
             /\ resp[w] = NoResp
             /\ cleanup_calls[w] = 0
        /\ pc[w] = "in_engine" =>
             /\ temp_file_path'[w] = temp_file_path[w]
             /\ temp_file_path[w] \in DOMAIN fs'
             /\ fs'[temp_file_path[w]] = fs[temp_file_path[w]]
             /\ cleanup_calls'[w] = 0
             /\ pc'[w] \in {"in_engine", "finally"}
             /\ pc'[w] = "finally" <=> resp'[w] # NoResp
        /\ cleanup_calls'[w] > cleanup_calls[w] =>
             /\ pc[w] = "finally"
             /\ resp[w] # NoResp
             /\ resp'[w] = resp[w]
             /\ engine_calls'[w] = engine_calls[w]
    ]_vars

\* One request is inside the engine with its staged file in place while
\* another, which went through the engine before it, has released its own.
C17_Witness ==
  \E w1, w2 \in Workers :
    /\ pc[w1] = "in_engine"
    /\ temp_file_path[w1] \in DOMAIN fs
    /\ pc[w2] = "done"
    /\ engine_calls[w2] = 1
    /\ cleanup_calls[w2] = 1
    /\ temp_file_path[w2] \notin DOMAIN fs

\* C18: a request that stands at transcribe_audio or inside the engine has
\* the handle loaded, so the branch 'Whisper model not loaded' is never
\* taken, and no /transcribe response carries that error.
C18_NotLoadedBranchDead ==
  \A w \in Workers :
    /\ pc[w] \in {"create_temp", "save", "getsize", "call_engine", "in_engine"}
         => model = "Loaded"
    /\ (Answered(w) /\ ~resp[w].body.success) =>
         resp[w].body.error.text # "Whisper model not loaded"

\* A request stands at transcribe_audio's check of the handle, past the
\* handler's own, while another has been answered 500 for an engine fault.
C18_Witness ==
  \E w1, w2 \in Workers :
    /\ pc[w1] = "call_engine"
    /\ model = "Loaded"
    /\ pc[w2] = "done"
    /\ engine_calls[w2] = 1
    /\ resp[w2].status = 500

====
